---- MODULE Spec2Model ----
(***************************************************************************)
(* Model of Challenge_1a/process_pdfs.py: title and outline extraction     *)
(* from PDF documents and the batch loop that writes one JSON record per   *)
(* document.                                                               *)
(*                                                                         *)
(* A text is a sequence of one-character strings.  Python's None, '' and   *)
(* [] are only ever tested for truthiness by this program, so all three    *)
(* are the empty sequence here.  A document is what the two PDF libraries  *)
(* report about a file: whether opening it raises, its metadata, its       *)
(* bookmark items and, per page, its glyphs ("chars") and extracted text.  *)
(***************************************************************************)
EXTENDS Integers, Sequences, FiniteSets, TLC

VARIABLES pc, doc, ret, set_order, input_dir, pdf_files, output_dir, log

vars == <<pc, doc, ret, set_order, input_dir, pdf_files, output_dir, log>>

None == << >>

(***************************************************************************)
(* Characters and the str methods the program uses.                        *)
(***************************************************************************)
Upper == {"A", "B", "C", "T"}
Lower == {"a", "b", "c", "t"}
Digit == {"1", "2"}
Whitespace == {" ", "\n"}

\* str.lower(), one character
lower_char(c) ==
    CASE c = "A" -> "a"
      [] c = "B" -> "b"
      [] c = "C" -> "c"
      [] c = "T" -> "t"
      [] OTHER -> c

\* str.lower()
lower(s) == [i \in 1..Len(s) |-> lower_char(s[i])]

\* the number of leading characters of s that are in the class
LeadingRun(s, Class) ==
    IF \A i \in 1..Len(s) : s[i] \in Class THEN Len(s)
    ELSE (CHOOSE i \in 1..Len(s) : s[i] \notin Class /\ \A j \in 1..(i - 1) : s[j] \in Class) - 1

\* a sequence reversed
Reverse(s) == [i \in 1..Len(s) |-> s[Len(s) + 1 - i]]

\* str.lstrip()
lstrip(s) == SubSeq(s, LeadingRun(s, Whitespace) + 1, Len(s))

\* str.rstrip()
rstrip(s) == SubSeq(s, 1, Len(s) - LeadingRun(Reverse(s), Whitespace))

\* str.strip()
strip(s) == rstrip(lstrip(s))

RECURSIVE SetToSeq(_)
\* the elements of a set of numbers in ascending order
SetToSeq(S) ==
    IF S = {} THEN << >>
    ELSE LET m == CHOOSE x \in S : \A y \in S : x <= y
         IN <<m>> \o SetToSeq(S \ {m})

\* str.split('\n'): the pieces between the line breaks
split(s) ==
    LET breaks == SetToSeq({i \in 1..Len(s) : s[i] = "\n"})
        from(k) == IF k = 1 THEN 1 ELSE breaks[k - 1] + 1
        to(k) == IF k > Len(breaks) THEN Len(s) ELSE breaks[k] - 1
    IN [k \in 1..(Len(breaks) + 1) |-> SubSeq(s, from(k), to(k))]

\* list.sort / sorted, which are stable: Less(a, b) is "key(a) < key(b)", and
\* an element is preceded by those with a smaller key and by the earlier
\* ones with an equal key
SortBy(s, Less(_, _)) ==
    LET rank(i) == Cardinality({j \in 1..Len(s) :
                       \/ Less(s[j], s[i])
                       \/ ~Less(s[i], s[j]) /\ j <= i})
    IN [k \in 1..Len(s) |-> s[CHOOSE i \in 1..Len(s) : rank(i) = k]]

RECURSIVE SumSeq(_)
\* sum() of a list of numbers
SumSeq(s) == IF s = << >> THEN 0 ELSE Head(s) + SumSeq(Tail(s))

\* list.count
Count(s, x) == Cardinality({i \in 1..Len(s) : s[i] = x})

\* s[i] when i is an index of s, and in the class
At(s, i, Class) == i \in 1..Len(s) /\ s[i] \in Class

(***************************************************************************)
(* is_potential_heading                                                    *)
(***************************************************************************)
MinHeadingLen == 3
MaxHeadingLen == 150
BodyTextLen == 100

WordChar == Upper \cup Lower \cup Digit \cup {"_"}

\* re.match(r'^\d+\.?\s+', text)
MatchNumbered(t) ==
    LET n == LeadingRun(t, Digit)
    IN /\ n >= 1
       /\ \/ At(t, n + 1, Whitespace)
          \/ At(t, n + 1, {"."}) /\ At(t, n + 2, Whitespace)

\* re.match(r'^[A-Z][a-z]*\s+[A-Z]', text)
MatchTitleCase(t) ==
    /\ At(t, 1, Upper)
    /\ LET rest == SubSeq(t, 2, Len(t))
           k == LeadingRun(rest, Lower)
           after == SubSeq(rest, k + 1, Len(rest))
           w == LeadingRun(after, Whitespace)
       IN w >= 1 /\ At(after, w + 1, Upper)

\* re.match(r'^[A-Z\s]+$', text)
MatchAllCaps(t) ==
    /\ Len(t) >= 1
    /\ \A i \in 1..Len(t) : t[i] \in Upper \cup Whitespace

\* re.match(r'^\w+\.\d+', text)
MatchSectionNumber(t) ==
    LET w == LeadingRun(t, WordChar)
    IN w >= 1 /\ At(t, w + 1, {"."}) /\ At(t, w + 2, Digit)

\* avg is the pair <<sum, count>> of the document's font sizes, so
\* font_size > avg_font_size * 1.1 is font_size * count * 10 > sum * 11;
\* page_width is not read
is_potential_heading(text0, font_size, avg) ==
    LET text == strip(text0)
    IN IF Len(text) < MinHeadingLen \/ Len(text) > MaxHeadingLen THEN FALSE
       ELSE IF Len(text) > BodyTextLen /\ text[Len(text)] # ":" THEN FALSE
       ELSE IF \/ MatchNumbered(text)
               \/ MatchTitleCase(text)
               \/ MatchAllCaps(text)
               \/ MatchSectionNumber(text) THEN TRUE
       ELSE font_size * avg[2] * 10 > avg[1] * 11

(***************************************************************************)
(* get_heading_level                                                       *)
(***************************************************************************)
MaxLevel == 3

\* f"H{n}"
H(n) == "H" \o ToString(n)

\* min(a, b)
Min(a, b) == IF a <= b THEN a ELSE b

\* sorted_sizes without reverse=True
sorted_sizes_Ascending(font_size_hierarchy) ==
    SetToSeq({font_size_hierarchy[i] : i \in 1..Len(font_size_hierarchy)})

\* sorted(set(font_size_hierarchy), reverse=True)
sorted_sizes(font_size_hierarchy) ==
    Reverse(SetToSeq({font_size_hierarchy[i] : i \in 1..Len(font_size_hierarchy)}))

get_heading_level(font_size, font_size_hierarchy) ==
    LET sizes == sorted_sizes(font_size_hierarchy)
    IN IF Len(sizes) <= 1 THEN "H1"
       ELSE IF \E i \in 1..Len(sizes) : sizes[i] = font_size
            \* list.index is 0-based
            THEN LET index == (CHOOSE i \in 1..Len(sizes) : sizes[i] = font_size) - 1
                 IN H(Min(index + 1, MaxLevel))
            ELSE "H3"

(***************************************************************************)
(* extract_outline_from_content                                            *)
(***************************************************************************)
\* dominant_font_size taking the size of the first glyph of the line
dominant_font_size_FirstGlyph(font_sizes, order) == font_sizes[1]

\* max(set(font_sizes), key=font_sizes.count): the first size, in the
\* iteration order of the set, whose count is the largest.  order is that
\* iteration order, which the language leaves to the implementation.
dominant_font_size(font_sizes, order) ==
    LET present == SelectSeq(order, LAMBDA s : Count(font_sizes, s) > 0)
        best == CHOOSE i \in 1..Len(present) :
                   /\ \A j \in 1..Len(present) :
                         Count(font_sizes, present[j]) <= Count(font_sizes, present[i])
                   /\ \A j \in 1..(i - 1) :
                         Count(font_sizes, present[j]) < Count(font_sizes, present[i])
    IN present[best]

\* the glyphs of one line: those with this y0, in the order of page.chars,
\* then sorted(..., key=x0)
line_chars(chars, y) ==
    SortBy(SelectSeq(chars, LAMBDA c : c.y0 = y), LAMBDA a, b : a.x0 < b.x0)

\* ''.join(char['text'] ...).strip()
line_text(lc) == strip([i \in 1..Len(lc) |-> lc[i].text])

\* sorted(lines.keys(), reverse=True)
line_keys(chars) == Reverse(SetToSeq({chars[i].y0 : i \in 1..Len(chars)}))

RECURSIVE page_headings(_, _, _, _, _)
\* the loop over the lines of one page, lines 205-222; ys are the keys left.
\* Every glyph has the keys text, size, x0 and y0, as pdfplumber gives them, so
\* the defaults of char.get are not used
page_headings(chars, ys, page_num, avg, order) ==
    IF ys = << >> THEN << >>
    ELSE LET lc == line_chars(chars, Head(ys))
             text == line_text(lc)
             font_sizes == [i \in 1..Len(lc) |-> lc[i].size]
             dominant == dominant_font_size(font_sizes, order)
             rest == page_headings(chars, Tail(ys), page_num, avg, order)
         IN IF text = << >> THEN rest
            ELSE IF is_potential_heading(text, dominant, avg)
                 THEN <<[text |-> text, page |-> page_num + 1, font_size |-> dominant]>>
                      \o rest
                 ELSE rest

RECURSIVE all_font_sizes(_)
\* first pass, lines 175-180: the positive sizes of all glyphs
all_font_sizes(pages) ==
    IF pages = << >> THEN << >>
    ELSE LET chars == Head(pages).chars
         IN SelectSeq([i \in 1..Len(chars) |-> chars[i].size], LAMBDA s : s > 0)
            \o all_font_sizes(Tail(pages))

RECURSIVE potential_headings(_, _, _, _)
\* second pass, lines 188-222: page_num is enumerate's 0-based index
potential_headings(pages, page_num, avg, order) ==
    IF pages = << >> THEN << >>
    ELSE LET chars == Head(pages).chars
             rest == potential_headings(Tail(pages), page_num + 1, avg, order)
         IN IF chars = << >> THEN rest
            ELSE page_headings(chars, line_keys(chars), page_num, avg, order) \o rest

RECURSIVE unique_from(_, _)
\* lines 225-232: seen is seen_texts
unique_from(headings, seen) ==
    IF headings = << >> THEN << >>
    ELSE LET text_key == strip(lower(Head(headings).text))
         IN IF text_key \notin seen /\ Len(text_key) > 2
            THEN <<Head(headings)>> \o unique_from(Tail(headings), seen \cup {text_key})
            ELSE unique_from(Tail(headings), seen)

RECURSIVE unique_from_exact(_, _)
\* unique_from with the text itself as its key
unique_from_exact(headings, seen) ==
    IF headings = << >> THEN << >>
    ELSE LET text_key == strip(Head(headings).text)
         IN IF text_key \notin seen /\ Len(text_key) > 2
            THEN <<Head(headings)>> \o unique_from_exact(Tail(headings), seen \cup {text_key})
            ELSE unique_from_exact(Tail(headings), seen)

\* deduplicate telling "ABC" from "abc"
deduplicate_CaseSensitive(headings) == unique_from_exact(headings, {})

\* lines 225-232
deduplicate(headings) == unique_from(headings, {})

\* sort_headings by font size alone
sort_headings_BySizeOnly(headings) ==
    SortBy(headings, LAMBDA a, b : -a.font_size < -b.font_size)

\* sort_headings with the smaller font size first on a page
sort_headings_SizeAscending(headings) ==
    SortBy(headings, LAMBDA a, b :
        \/ a.page < b.page
        \/ a.page = b.page /\ a.font_size < b.font_size)

\* line 235: unique_headings.sort(key=lambda x: (x["page"], -x["font_size"]))
sort_headings(headings) ==
    SortBy(headings, LAMBDA a, b :
        \/ a.page < b.page
        \/ a.page = b.page /\ -a.font_size < -b.font_size)

\* lines 238-246
final_outline(unique_headings) ==
    LET font_size_hierarchy ==
            [i \in 1..Len(unique_headings) |-> unique_headings[i].font_size]
    IN [i \in 1..Len(unique_headings) |->
           [level |-> get_heading_level(unique_headings[i].font_size, font_size_hierarchy),
            text |-> unique_headings[i].text,
            page |-> unique_headings[i].page]]

\* the candidates of a document that pdfplumber opens, lines 171-222
content_candidates(d, order) ==
    LET sizes == all_font_sizes(d.pages)
    IN IF sizes = << >> THEN << >>
       ELSE potential_headings(d.pages, 0, <<SumSeq(sizes), Len(sizes)>>, order)

\* unique_headings after line 235
content_headings(d, order) == sort_headings(deduplicate(content_candidates(d, order)))

extract_outline_from_content(d, order) ==
    \* pdfplumber.open or page.chars raises: the handler of lines 248-249
    IF d.plumber # "ok" \/ \E p \in 1..Len(d.pages) : d.pages[p].parse # "ok" THEN << >>
    ELSE final_outline(content_headings(d, order))

(***************************************************************************)
(* extract_title                                                           *)
(***************************************************************************)
TitleLongerThan == 5
TitleShorterThan == 150

UntitledDocument ==
    <<"U", "n", "t", "i", "t", "l", "e", "d", " ", "D", "o", "c", "u", "m", "e", "n", "t">>

extract_title_from_metadata(d) ==
    IF d.reader # "ok" \/ d.metadata.kind = "raises" THEN None   \* lines 16-18
    ELSE IF d.metadata.kind = "dict"
         THEN LET title == strip(d.metadata.Title)
              IN IF title # << >> THEN title ELSE None
         ELSE None

RECURSIVE first_title_line(_)
\* the loops of lines 50-53 and 59-62: the first line, stripped, with more
\* than 5 and fewer than 150 characters, or None
first_title_line(lines) ==
    IF lines = << >> THEN None
    ELSE LET line == strip(Head(lines))
         IN IF Len(line) > TitleLongerThan /\ Len(line) < TitleShorterThan THEN line
            ELSE first_title_line(Tail(lines))

\* max of a non-empty set of numbers
Max(S) == CHOOSE x \in S : \A y \in S : y <= x

extract_title_from_content(d) ==
    IF d.plumber # "ok" THEN None                                \* lines 63-65
    ELSE IF Len(d.pages) > 0
    THEN LET first_page == d.pages[1]
             chars == first_page.chars
         IN IF first_page.parse # "ok" THEN None                 \* lines 63-65
            ELSE IF chars = << >> THEN None
            ELSE LET largest_font == Max({chars[i].size : i \in 1..Len(chars)})
                     title_chars == SelectSeq(chars, LAMBDA c : c.size = largest_font)
                     title_text == strip([i \in 1..Len(title_chars) |-> title_chars[i].text])
                     line == first_title_line(split(title_text))
                 IN IF line # None THEN line
                    ELSE IF first_page.text # << >>
                         THEN first_title_line(split(first_page.text))
                         ELSE None
    ELSE None

\* extract_title looking at the first page before the metadata
extract_title_ContentFirst(d) ==
    LET title == extract_title_from_content(d)
    IN IF title # None THEN title
       ELSE LET title2 == extract_title_from_metadata(d)
            IN IF title2 # None THEN title2
               ELSE UntitledDocument

extract_title(d) ==
    LET title == extract_title_from_metadata(d)
    IN IF title # None THEN title
       ELSE LET title2 == extract_title_from_content(d)
            IN IF title2 # None THEN title2
               ELSE UntitledDocument

(***************************************************************************)
(* extract_outline_from_bookmarks.  A bookmark item is the list            *)
(* [kind |-> "list", items] or the node [kind |-> "node", title, dest,     *)
(* children]; dest.page says whether the node has a page attribute         *)
(* ("absent"), whether looking its page number up raises ("raises") or     *)
(* gives dest.number, 0-based ("ok").                                      *)
(***************************************************************************)
\* lines 141-146
bookmark_page(dest) == IF dest.page = "ok" THEN dest.number + 1 ELSE 1

RECURSIVE process_bookmark(_, _)
RECURSIVE process_bookmarks(_, _)

\* process_bookmark giving the children the level of their parent
process_bookmark_ChildrenSameLevel(bookmark_item, level) ==
    IF bookmark_item.kind = "list"
    THEN process_bookmarks(bookmark_item.items, level)
    ELSE LET title == strip(bookmark_item.title)
             own == IF title # << >> /\ Len(title) > 2
                    THEN <<[level |-> H(Min(level, MaxLevel)),
                            text |-> title,
                            page |-> bookmark_page(bookmark_item.dest)]>>
                    ELSE << >>
         IN IF bookmark_item.children # << >>
            THEN own \o process_bookmarks(bookmark_item.children, level)
            ELSE own

\* the entries that process_bookmark(bookmark_item, level) appends to outline
process_bookmark(bookmark_item, level) ==
    IF bookmark_item.kind = "list"
    THEN process_bookmarks(bookmark_item.items, level)
    ELSE LET title == strip(bookmark_item.title)
             own == IF title # << >> /\ Len(title) > 2
                    THEN <<[level |-> H(Min(level, MaxLevel)),
                            text |-> title,
                            page |-> bookmark_page(bookmark_item.dest)]>>
                    ELSE << >>
         IN IF bookmark_item.children # << >>
            THEN own \o process_bookmarks(bookmark_item.children, level + 1)
            ELSE own

\* the for loops of lines 135-136 and 156-157
process_bookmarks(items, level) ==
    IF items = << >> THEN << >>
    ELSE process_bookmark(Head(items), level) \o process_bookmarks(Tail(items), level)

extract_outline_from_bookmarks(d) ==
    IF d.reader # "ok" \/ d.bookmarks.kind # "ok" THEN << >>   \* lines 161-163
    ELSE IF d.bookmarks.item.items = << >> THEN << >>          \* line 130
    ELSE process_bookmark(d.bookmarks.item, 1)

(***************************************************************************)
(* extract_outline                                                         *)
(***************************************************************************)
\* extract_outline preferring the outline made from the glyphs
extract_outline_ContentFirst(d, order) ==
    LET outline == extract_outline_from_content(d, order)
    IN IF outline # << >> THEN outline
       ELSE extract_outline_from_bookmarks(d)

extract_outline(d, order) ==
    LET outline == extract_outline_from_bookmarks(d)
    IN IF outline # << >> THEN outline
       ELSE extract_outline_from_content(d, order)

(***************************************************************************)
(* process_single_pdf.  extract_title and extract_outline handle every     *)
(* exception of the libraries themselves (lines 16, 63, 161, 248), so      *)
(* nothing reaches the handler of lines 277-283, which would return        *)
(* MinimalRecord.                                                          *)
(***************************************************************************)
MinimalRecord == [title |-> <<"D", "o", "c", "u", "m", "e", "n", "t">>, outline |-> << >>]

\* process_single_pdf when a failure of a library reaches its handler
process_single_pdf_Propagating(d, order) ==
    IF d.reader # "ok" \/ d.plumber # "ok" \/ d.metadata.kind = "raises"
    THEN MinimalRecord
    ELSE [title |-> extract_title(d), outline |-> extract_outline(d, order)]

process_single_pdf(d, order) ==
    [title |-> extract_title(d), outline |-> extract_outline(d, order)]

(***************************************************************************)
(* Documents.  reader is pypdf's PdfReader(pdf_path), plumber is           *)
(* pdfplumber.open(pdf_path); each either works or raises.  lines is the   *)
(* layout the glyphs were laid out from, top to bottom page by page: it is *)
(* what the properties are stated against and no operation reads it.       *)
(***************************************************************************)
MaxPages == 2
MaxLines == 3
MaxGlyphs == 4

\* the font sizes of the glyphs of a line, and of the lines of a layout
Sizes == {10, 12, 17}
LayoutSizes == {10, 17}

\* the iteration orders a set of these sizes can have
SetOrders ==
    {o \in [1..Cardinality(Sizes) -> Sizes] : \A s \in Sizes : \E i \in DOMAIN o : o[i] = s}

DefaultOrder == Reverse(SetToSeq(Sizes))

\* "ABC", "abc", "1 a", "A B"
Words == {<<"A", "B", "C">>, <<"a", "b", "c">>, <<"1", " ", "a">>, <<"A", " ", "B">>}

NoMetadata == [kind |-> "none", Title |-> << >>]
NoBookmarks == [kind |-> "ok", item |-> [kind |-> "list", items |-> << >>]]

\* the layouts: at most MaxLines lines, on pages that never decrease
Layouts ==
    UNION {{l \in [1..n -> [page : 1..MaxPages, word : Words, size : LayoutSizes]] :
               \A i \in 1..(n - 1) : l[i].page <= l[i + 1].page} : n \in 0..MaxLines}

\* the glyphs of line j of a layout: one per character, left to right
line_glyphs(l, j) ==
    [k \in 1..Len(l[j].word) |->
        [text |-> l[j].word[k], size |-> l[j].size, x0 |-> k, y0 |-> Len(l) - j + 1]]

RECURSIVE layout_glyphs(_, _, _)
\* the glyphs of the lines of page p, from line j on
layout_glyphs(l, j, p) ==
    IF j > Len(l) THEN << >>
    ELSE IF l[j].page = p THEN line_glyphs(l, j) \o layout_glyphs(l, j + 1, p)
    ELSE layout_glyphs(l, j + 1, p)

RECURSIVE join_lines(_)
\* the words of the lines, one per line of text
join_lines(words) ==
    IF words = << >> THEN << >>
    ELSE IF Len(words) = 1 THEN Head(words)
    ELSE Head(words) \o <<"\n">> \o join_lines(Tail(words))

\* a page as pdfplumber reports it; the glyphs come in content-stream order,
\* which need not be reading order, and extract_text() gives the lines of the
\* page top to bottom
layout_page(l, p, reversed) ==
    LET g == layout_glyphs(l, 1, p)
        on_page == SelectSeq(l, LAMBDA x : x.page = p)
    IN [parse |-> "ok",
        chars |-> IF reversed THEN Reverse(g) ELSE g,
        text |-> join_lines([i \in 1..Len(on_page) |-> on_page[i].word])]

\* the pages of a layout
layout_pages(l, reversed) == [p \in 1..MaxPages |-> layout_page(l, p, reversed)]

\* a document that both libraries open, without metadata or bookmarks
plain_doc(pages) ==
    [reader |-> "ok", metadata |-> NoMetadata, bookmarks |-> NoBookmarks,
     plumber |-> "ok", pages |-> pages, lines |-> << >>, forest |-> << >>]

\* a document with these lines, no metadata and no bookmarks
layout_doc(l, reversed) ==
    [plain_doc(layout_pages(l, reversed)) EXCEPT !.lines = l]

(***************************************************************************)
(* The content pipeline on its own.                                        *)
(***************************************************************************)
InitContent ==
    /\ pc = "start"
    /\ \E l \in Layouts, reversed \in BOOLEAN : doc = layout_doc(l, reversed)
    /\ ret = << >>
    /\ set_order = DefaultOrder
    /\ input_dir = << >>
    /\ pdf_files = << >>
    /\ output_dir = << >>
    /\ log = << >>

RunContent ==
    /\ pc = "start"
    /\ ret' = extract_outline_from_content(doc, set_order)
    /\ pc' = "done"
    /\ UNCHANGED <<doc, set_order, input_dir, pdf_files, output_dir, log>>

NextContent == RunContent

SpecContent == InitContent /\ [][NextContent]_vars

\* <<sum, count>> of the font sizes of the glyphs of a layout
RECURSIVE LayoutAvg(_)
LayoutAvg(l) ==
    IF l = << >> THEN <<0, 0>>
    ELSE LET r == LayoutAvg(Tail(l))
         IN <<Head(l).size * Len(Head(l).word) + r[1], Len(Head(l).word) + r[2]>>

\* the lines of the layout that the classifier accepts
Accepted(l) == {i \in 1..Len(l) : is_potential_heading(l[i].word, l[i].size, LayoutAvg(l))}

\* the text two headings must not share
Key(t) == strip(lower(t))

\* the accepted lines that no earlier accepted line has the key of
FirstOfKey(l) ==
    {i \in Accepted(l) : \A j \in Accepted(l) : j < i => Key(l[j].word) # Key(l[i].word)}

\* the line of the layout an outline entry was made from
LineOf(l, e) == CHOOSE i \in FirstOfKey(l) : l[i].word = e.text /\ l[i].page = e.page

\* C6: in a content-pipeline outline no two entries have the same lower-cased,
\* trimmed text, and the entries are exactly the first accepted line, in
\* document order, of each such text
C6_FirstOccurrenceWins ==
    pc = "done" =>
        /\ \A a, b \in 1..Len(ret) : a # b => Key(ret[a].text) # Key(ret[b].text)
        /\ {<<ret[a].text, ret[a].page>> : a \in 1..Len(ret)}
           = {<<doc.lines[i].word, doc.lines[i].page>> : i \in FirstOfKey(doc.lines)}

\* two accepted lines on different pages differ in case only, and the outline has
\* the earlier one
C6_Witness ==
    /\ pc = "done"
    /\ \E i, j \in Accepted(doc.lines) :
          /\ doc.lines[i].page < doc.lines[j].page
          /\ doc.lines[i].word # doc.lines[j].word
          /\ Key(doc.lines[i].word) = Key(doc.lines[j].word)
          /\ \E a \in 1..Len(ret) : ret[a].text = doc.lines[i].word

\* C8: a content-pipeline outline is sorted by page ascending, then font size
\* descending, and entries equal in both keep their document order
C8_SortedByPageThenSize ==
    pc = "done" =>
        \A a, b \in 1..Len(ret) : a < b =>
            LET i == LineOf(doc.lines, ret[a])
                j == LineOf(doc.lines, ret[b])
                x == doc.lines[i]
                y == doc.lines[j]
            IN \/ x.page < y.page
               \/ x.page = y.page /\ x.size > y.size
               \/ x.page = y.page /\ x.size = y.size /\ i < j

\* two headings of one page come out in the opposite of their document order,
\* before a heading of a later page
C8_Witness ==
    /\ pc = "done"
    /\ Len(ret) = 3
    /\ LET i == LineOf(doc.lines, ret[1])
           j == LineOf(doc.lines, ret[2])
       IN /\ j < i
          /\ ret[1].page = ret[2].page
          /\ ret[2].page < ret[3].page

(***************************************************************************)
(* One line of glyphs of several font sizes.                               *)
(***************************************************************************)
\* the characters of the line, "ABCT..": capitals, so the line is a heading
\* whatever its font size
LineChar(k) == IF k = 1 THEN "A" ELSE IF k = 2 THEN "B" ELSE IF k = 3 THEN "C" ELSE "T"

\* a one-page document with one line, whose glyphs have the sizes sz
line_doc(sz) ==
    plain_doc(<<[parse |-> "ok",
                 chars |-> [k \in 1..Len(sz) |->
                               [text |-> LineChar(k), size |-> sz[k], x0 |-> k, y0 |-> 1]],
                 text |-> [k \in 1..Len(sz) |-> LineChar(k)]]>>)

InitLine ==
    /\ pc = "start"
    /\ \E n \in MinHeadingLen..MaxGlyphs : \E sz \in [1..n -> Sizes] : doc = line_doc(sz)
    /\ ret = << >>
    /\ set_order \in SetOrders
    /\ input_dir = << >>
    /\ pdf_files = << >>
    /\ output_dir = << >>
    /\ log = << >>

\* the pipeline up to its candidates, which carry the dominant font size
RunLine ==
    /\ pc = "start"
    /\ ret' = content_candidates(doc, set_order)
    /\ pc' = "done"
    /\ UNCHANGED <<doc, set_order, input_dir, pdf_files, output_dir, log>>

NextLine == RunLine

SpecLine == InitLine /\ [][NextLine]_vars

\* the font sizes of the glyphs of the line, left to right
GlyphSizes == [k \in 1..Len(doc.pages[1].chars) |-> doc.pages[1].chars[k].size]

\* the sizes no other size of the line is more frequent than
MostFrequent(sz) ==
    {s \in Sizes : Count(sz, s) > 0 /\ \A t \in Sizes : Count(sz, t) <= Count(sz, s)}

\* the most frequent size that the line has first
FirstSeen(sz) == sz[CHOOSE k \in 1..Len(sz) :
                       sz[k] \in MostFrequent(sz) /\ \A j \in 1..(k - 1) : sz[j] \notin MostFrequent(sz)]

\* C10 as stated: the dominant font size of a line is its most frequent size,
\* and of several most frequent sizes the one the line has first
C10_TieGoesToFirstSeen ==
    pc = "done" => Len(ret) = 1 /\ ret[1].font_size = FirstSeen(GlyphSizes)

\* where a size comes in the iteration order of the set of sizes
OrderIndex(s) == CHOOSE i \in 1..Len(set_order) : set_order[i] = s

\* C10 as amended: the dominant font size of a line is one of its most frequent
\* sizes, and of several most frequent sizes the one that comes first when the
\* set of the sizes of the line is iterated
C10_DominantIsMostFrequent ==
    pc = "done" =>
        /\ Len(ret) = 1
        /\ ret[1].font_size \in MostFrequent(GlyphSizes)
        /\ \A s \in MostFrequent(GlyphSizes) : OrderIndex(ret[1].font_size) <= OrderIndex(s)

\* a line whose most frequent sizes tie, and the one chosen is not the first seen
C10_Witness ==
    /\ pc = "done"
    /\ Cardinality(MostFrequent(GlyphSizes)) > 1
    /\ ret[1].font_size # FirstSeen(GlyphSizes)

(***************************************************************************)
(* The levels of a sorted list of headings.                                *)
(***************************************************************************)
MaxHeadings == 4

LevelSizes == {10, 12, 14, 17}

\* "AAA", "AAAA", ...: the text of heading i
heading_text(i) == [k \in 1..(i + 2) |-> "A"]

\* unique_headings as line 235 leaves it: distinct texts, ascending pages
headings_of(sz) ==
    [i \in 1..Len(sz) |-> [text |-> heading_text(i), page |-> i, font_size |-> sz[i]]]

InitLevels ==
    /\ pc = "start"
    /\ \E n \in 0..MaxHeadings : \E sz \in [1..n -> LevelSizes] : doc = [unique_headings |-> headings_of(sz)]
    /\ ret = << >>
    /\ set_order = DefaultOrder
    /\ input_dir = << >>
    /\ pdf_files = << >>
    /\ output_dir = << >>
    /\ log = << >>

\* lines 238-246
AssignLevels ==
    /\ pc = "start"
    /\ ret' = final_outline(doc.unique_headings)
    /\ pc' = "done"
    /\ UNCHANGED <<doc, set_order, input_dir, pdf_files, output_dir, log>>

NextLevels == AssignLevels

SpecLevels == InitLevels /\ [][NextLevels]_vars

\* the distinct font sizes of the headings
HeadingSizes == {doc.unique_headings[i].font_size : i \in 1..Len(doc.unique_headings)}

\* the number of distinct heading sizes larger than s
Rank(s) == Cardinality({t \in HeadingSizes : t > s})

\* the number of a level
LevelNumber(level) == CHOOSE n \in 1..MaxLevel : H(n) = level

\* C9: the level of an entry is H1 when the headings have at most one distinct
\* font size, otherwise H{min(rank+1, 3)} for the rank of its size among the
\* distinct sizes in descending order; it is one of H1, H2, H3, and a larger
\* size never has a larger level number
C9_LevelIsSizeRank ==
    pc = "done" =>
        /\ Len(ret) = Len(doc.unique_headings)
        /\ \A i \in 1..Len(ret) :
              /\ ret[i].level \in {"H1", "H2", "H3"}
              /\ ret[i].level = IF Cardinality(HeadingSizes) <= 1 THEN "H1"
                                ELSE H(Min(Rank(doc.unique_headings[i].font_size) + 1, MaxLevel))
        /\ \A i, j \in 1..Len(ret) :
              doc.unique_headings[i].font_size > doc.unique_headings[j].font_size
                  => LevelNumber(ret[i].level) <= LevelNumber(ret[j].level)

\* headings of four distinct sizes: the two smallest are both H3
C9_Witness ==
    /\ pc = "done"
    /\ Cardinality(HeadingSizes) = 4
    /\ \E i, j \in 1..Len(ret) :
          /\ doc.unique_headings[i].font_size > doc.unique_headings[j].font_size
          /\ ret[i].level = "H3"
          /\ ret[j].level = "H3"
    /\ \E i \in 1..Len(ret) : ret[i].level = "H1"

(***************************************************************************)
(* Bookmark forests.  A forest is given by its nodes in pre-order, each    *)
(* with its depth: the first has depth 1 and a node is at most one deeper  *)
(* than the node before it.                                                *)
(***************************************************************************)
MaxNodes == 4

\* " abc" has three characters once trimmed, " AB " two
BookmarkTitles == {<<" ", "a", "b", "c">>, <<" ", "A", "B", " ">>}

Dests == {[page |-> "absent", number |-> 0], [page |-> "raises", number |-> 0],
          [page |-> "ok", number |-> 1]}

Forests(max) ==
    UNION {{f \in [1..n -> [depth : 1..max, title : BookmarkTitles, dest : Dests]] :
               /\ n > 0 => f[1].depth = 1
               /\ \A i \in 1..(n - 1) : f[i + 1].depth <= f[i].depth + 1} : n \in 0..max}

\* the last node of the subtree of node lo, among the nodes up to hi
SubtreeEnd(f, lo, hi) ==
    CHOOSE k \in lo..hi :
        /\ \A m \in (lo + 1)..k : f[m].depth > f[lo].depth
        /\ k < hi => f[k + 1].depth <= f[lo].depth

RECURSIVE forest_items(_, _, _)
\* the trees of the nodes lo..hi, which are siblings and their descendants
forest_items(f, lo, hi) ==
    IF lo > hi THEN << >>
    ELSE LET end == SubtreeEnd(f, lo, hi)
         IN <<[kind |-> "node", title |-> f[lo].title, dest |-> f[lo].dest,
               children |-> forest_items(f, lo + 1, end)]>>
            \o forest_items(f, end + 1, hi)

\* reader.outline for the forest
forest_outline(f) ==
    [kind |-> "ok", item |-> [kind |-> "list", items |-> forest_items(f, 1, Len(f))]]

\* a document with these bookmarks and no pages; forest is what the
\* properties are stated against and no operation reads it
forest_doc(f) ==
    [plain_doc(<< >>) EXCEPT !.bookmarks = forest_outline(f), !.forest = f]

InitBookmarks ==
    /\ pc = "start"
    /\ \E f \in Forests(MaxNodes) : doc = forest_doc(f)
    /\ ret = << >>
    /\ set_order = DefaultOrder
    /\ input_dir = << >>
    /\ pdf_files = << >>
    /\ output_dir = << >>
    /\ log = << >>

RunBookmarks ==
    /\ pc = "start"
    /\ ret' = extract_outline_from_bookmarks(doc)
    /\ pc' = "done"
    /\ UNCHANGED <<doc, set_order, input_dir, pdf_files, output_dir, log>>

NextBookmarks == RunBookmarks

SpecBookmarks == InitBookmarks /\ [][NextBookmarks]_vars

\* the entry of a node of a forest
NodeEntry(node) ==
    [level |-> IF node.depth = 1 THEN "H1" ELSE IF node.depth = 2 THEN "H2" ELSE "H3",
     text |-> strip(node.title),
     page |-> IF node.dest.page = "ok" THEN node.dest.number + 1 ELSE 1]

\* the pre-order flattening of a forest
Flattening(f) ==
    SelectSeq([i \in 1..Len(f) |-> NodeEntry(f[i])], LAMBDA e : Len(e.text) > 2)

MaxOutlineNodes == 3

\* no glyphs; one heading; a heading on each page; three lines of which the
\* first is body text
OutlineLayouts ==
    {<< >>,
     <<[page |-> 1, word |-> <<"A", "B", "C">>, size |-> 10]>>,
     <<[page |-> 1, word |-> <<"1", " ", "a">>, size |-> 10],
       [page |-> 2, word |-> <<"A", "B", "C">>, size |-> 17]>>,
     <<[page |-> 1, word |-> <<"a", "b", "c">>, size |-> 10],
       [page |-> 1, word |-> <<"A", " ", "B">>, size |-> 17],
       [page |-> 2, word |-> <<"A", "B", "C">>, size |-> 10]>>}

InitOutline ==
    /\ pc = "start"
    /\ \E f \in Forests(MaxOutlineNodes), l \in OutlineLayouts, k \in {"ok", "raises"} :
          doc = [layout_doc(l, FALSE) EXCEPT
                    !.bookmarks = [forest_outline(f) EXCEPT !.kind = k], !.forest = f]
    /\ ret = << >>
    /\ set_order = DefaultOrder
    /\ input_dir = << >>
    /\ pdf_files = << >>
    /\ output_dir = << >>
    /\ log = << >>

RunOutline ==
    /\ pc = "start"
    /\ ret' = extract_outline(doc, set_order)
    /\ pc' = "done"
    /\ UNCHANGED <<doc, set_order, input_dir, pdf_files, output_dir, log>>

NextOutline == RunOutline

SpecOutline == InitOutline /\ [][NextOutline]_vars

\* the outline has the text and page of lines of the layout only
FromContent(outline, l) ==
    \A a \in 1..Len(outline) :
        \E i \in 1..Len(l) : l[i].word = outline[a].text /\ l[i].page = outline[a].page

\* the pages of the outline never decrease
PagesAscend(outline) ==
    \A a, b \in 1..Len(outline) : a < b => outline[a].page <= outline[b].page

C7_EveryOutlineAscends ==
    pc = "done" => PagesAscend(ret)

\* C7 as amended: the pages of an outline made by the content pipeline, which
\* is the outline whenever the bookmarks give no entry, never decrease
C7_ContentOutlineAscends ==
    pc = "done" /\ (doc.bookmarks.kind # "ok" \/ Flattening(doc.forest) = << >>)
        => PagesAscend(ret)

\* an outline of the content pipeline with entries on two pages, of a document
\* whose bookmarks have no entry
C7_Witness ==
    /\ pc = "done"
    /\ doc.forest # << >>
    /\ Flattening(doc.forest) = << >>
    /\ \E a, b \in 1..Len(ret) : ret[a].page < ret[b].page

(***************************************************************************)
(* extract_title.  The first page is laid out from lines of 5, 6, 149 and  *)
(* 150 characters, with and without blanks around them.                    *)
(***************************************************************************)
MaxTitleLines == 2

\* n times the character c
Rep(c, n) == [i \in 1..n |-> c]

TitleWords ==
    {Rep("A", 5), Rep("B", 6), <<" ">> \o Rep("C", 149), Rep("T", 150),
     <<" ">> \o Rep("a", 5) \o <<" ">>}

TitleLayouts ==
    UNION {[1..n -> [page : {1}, word : TitleWords, size : LayoutSizes]] : n \in 0..MaxTitleLines}

\* "  ", " Abc " and "": a title of blanks, a title, no /Title entry
MetadataTitles == {<<" ", " ">>, <<" ", "A", "b", "c", " ">>, << >>}

Metadatas ==
    {NoMetadata, [kind |-> "raises", Title |-> << >>]}
    \cup {[kind |-> "dict", Title |-> t] : t \in MetadataTitles}

\* the pages of a title document: none, a first page that cannot be parsed, or
\* a first page with the lines of a layout
TitlePages ==
    {<< >>, <<[parse |-> "raises", chars |-> << >>, text |-> << >>]>>}
    \cup {<<layout_page(l, 1, FALSE)>> : l \in TitleLayouts}

InitTitle ==
    /\ pc = "start"
    /\ \E m \in Metadatas, r \in {"ok", "raises"}, o \in {"ok", "raises"}, pg \in TitlePages :
          doc = [plain_doc(pg) EXCEPT !.reader = r, !.metadata = m, !.plumber = o]
    /\ ret = << >>
    /\ set_order = DefaultOrder
    /\ input_dir = << >>
    /\ pdf_files = << >>
    /\ output_dir = << >>
    /\ log = << >>

RunTitle ==
    /\ pc = "start"
    /\ ret' = extract_title(doc)
    /\ pc' = "done"
    /\ UNCHANGED <<doc, set_order, input_dir, pdf_files, output_dir, log>>

NextTitle == RunTitle

SpecTitle == InitTitle /\ [][NextTitle]_vars

\* the lines of a text
RECURSIVE TextLines(_)
TextLines(t) ==
    IF \E i \in 1..Len(t) : t[i] = "\n"
    THEN LET i == CHOOSE k \in 1..Len(t) : t[k] = "\n" /\ \A j \in 1..(k - 1) : t[j] # "\n"
         IN <<SubSeq(t, 1, i - 1)>> \o TextLines(SubSeq(t, i + 1, Len(t)))
    ELSE <<t>>

\* a line is a title when, trimmed, it has 6 to 149 characters
IsTitleLine(line) == Len(strip(line)) \in 6..149

\* the first title line of a text, trimmed, or None
FirstTitleLine(t) ==
    LET ls == TextLines(t)
    IN IF \E i \in 1..Len(ls) : IsTitleLine(ls[i])
       THEN strip(ls[CHOOSE i \in 1..Len(ls) :
                IsTitleLine(ls[i]) /\ \A j \in 1..(i - 1) : ~IsTitleLine(ls[j])])
       ELSE None

\* whether the first page can be read
FirstPageRead(d) == d.plumber = "ok" /\ Len(d.pages) > 0 /\ d.pages[1].parse = "ok"

\* step 1: the metadata title, trimmed
MetadataStep(d) ==
    IF d.reader = "ok" /\ d.metadata.kind = "dict" THEN strip(d.metadata.Title) ELSE None

\* step 2: the first title line of the glyphs of the largest font size of the
\* first page
LargestFontStep(d) ==
    IF FirstPageRead(d) /\ d.pages[1].chars # << >>
    THEN LET chars == d.pages[1].chars
             big == {i \in 1..Len(chars) : \A j \in 1..Len(chars) : chars[j].size <= chars[i].size}
             group == SelectSeq([i \in 1..Len(chars) |-> IF i \in big THEN chars[i].text ELSE ""],
                                LAMBDA c : c # "")
         IN FirstTitleLine(strip(group))
    ELSE None

\* step 3: the first title line of the text of the first page
TextStep(d) == IF FirstPageRead(d) THEN FirstTitleLine(d.pages[1].text) ELSE None

\* C5: extract_title returns a non-empty string: the trimmed metadata title, else
\* the first line of 6 to 149 characters of the largest-font glyphs of the first
\* page, else the first such line of the text of the first page, else "Untitled
\* Document"; a step that fails gives no result and the next step is tried
C5_FirstSuccessInOrder ==
    pc = "done" =>
        /\ ret # << >>
        /\ ret = IF MetadataStep(doc) # None THEN MetadataStep(doc)
                 ELSE IF LargestFontStep(doc) # None THEN LargestFontStep(doc)
                 ELSE IF TextStep(doc) # None THEN TextStep(doc)
                 ELSE UntitledDocument

\* the metadata cannot be read, the largest glyphs make no title line, and the
\* title is a line of the text of the page
C5_Witness ==
    /\ pc = "done"
    /\ doc.metadata.kind = "raises"
    /\ LargestFontStep(doc) = None
    /\ TextStep(doc) # None
    /\ ret = TextStep(doc)

(***************************************************************************)
(* process_pdfs.  The files of the input directory are numbered; file f is *)
(* written to output_dir[f].  log has, per file processed, what was        *)
(* returned for it and how writing it went.                                *)
(***************************************************************************)
MaxFiles == 2

OneBookmark == <<[depth |-> 1, title |-> <<" ", "a", "b", "c">>, dest |-> [page |-> "ok", number |-> 1]]>>

TwoPages == <<[page |-> 1, word |-> <<"1", " ", "a">>, size |-> 10],
              [page |-> 2, word |-> <<"A", "B", "C">>, size |-> 17]>>

\* metadata title " Abc ", one bookmark, headings on two pages
ReadableDoc ==
    [layout_doc(TwoPages, FALSE) EXCEPT
        !.metadata = [kind |-> "dict", Title |-> <<" ", "A", "b", "c", " ">>],
        !.bookmarks = forest_outline(OneBookmark), !.forest = OneBookmark]

\* neither library can open the file
UnreadableDoc == [plain_doc(<< >>) EXCEPT !.reader = "raises", !.plumber = "raises"]

\* reading the metadata raises
CorruptMetadataDoc ==
    [layout_doc(TwoPages, FALSE) EXCEPT !.metadata = [kind |-> "raises", Title |-> << >>]]

\* no pages, no metadata, no bookmarks
NoPagesDoc == plain_doc(<< >>)

\* a page whose glyphs cannot be read, in a document with a bookmark
BrokenPageDoc ==
    [plain_doc(<<[parse |-> "raises", chars |-> << >>, text |-> << >>]>>) EXCEPT
        !.bookmarks = forest_outline(OneBookmark), !.forest = OneBookmark]

SampleDocs == {ReadableDoc, UnreadableDoc, CorruptMetadataDoc, NoPagesDoc, BrokenPageDoc}

\* the orders list(input_dir.glob("*.pdf")) can have
Orders(n) == {o \in [1..n -> 1..n] : \A f \in 1..n : \E i \in 1..n : o[i] = f}

\* writing works, open() raises, or json.dump raises after open() made the file
WriteOutcomes == {"written", "open_raises", "dump_raises"}

NoFile == [state |-> "absent", record |-> MinimalRecord]

InitBatch ==
    /\ pc = "start"
    /\ doc = << >>
    /\ ret = << >>
    /\ set_order = DefaultOrder
    /\ \E n \in 0..MaxFiles : input_dir \in [1..n -> SampleDocs]
    /\ pdf_files = << >>
    /\ output_dir = [f \in 1..Len(input_dir) |-> NoFile]
    /\ log = << >>

\* lines 288-301
ListFiles ==
    /\ pc = "start"
    /\ IF Len(input_dir) = 0
       THEN pc' = "done" /\ pdf_files' = << >>
       ELSE pc' = "loop" /\ pdf_files' \in Orders(Len(input_dir))
    /\ UNCHANGED <<doc, ret, set_order, input_dir, output_dir, log>>

\* ProcessFile when a failure to write ends the loop
ProcessFile_StopOnWriteFailure ==
    /\ pc = "loop"
    /\ pdf_files # << >>
    /\ LET pdf_file == Head(pdf_files)
           result == process_single_pdf(input_dir[pdf_file], set_order)
       IN /\ doc' = input_dir[pdf_file]
          /\ ret' = result
          /\ \E w \in WriteOutcomes :
                /\ output_dir' = [output_dir EXCEPT ![pdf_file] =
                       IF w = "written" THEN [state |-> "record", record |-> result]
                       ELSE IF w = "dump_raises" THEN [state |-> "truncated", record |-> MinimalRecord]
                       ELSE @]
                /\ log' = Append(log, [file |-> pdf_file, result |-> result, write |-> w])
                /\ pc' = IF Tail(pdf_files) = << >> \/ w # "written" THEN "done" ELSE "loop"
    /\ pdf_files' = Tail(pdf_files)
    /\ UNCHANGED <<set_order, input_dir>>

\* one turn of the loop of lines 303-321
ProcessFile ==
    /\ pc = "loop"
    /\ pdf_files # << >>
    /\ LET pdf_file == Head(pdf_files)
           result == process_single_pdf(input_dir[pdf_file], set_order)
       IN /\ doc' = input_dir[pdf_file]
          /\ ret' = result
          /\ \E w \in WriteOutcomes :
                /\ output_dir' = [output_dir EXCEPT ![pdf_file] =
                       IF w = "written" THEN [state |-> "record", record |-> result]
                       ELSE IF w = "dump_raises" THEN [state |-> "truncated", record |-> MinimalRecord]
                       ELSE @]
                /\ log' = Append(log, [file |-> pdf_file, result |-> result, write |-> w])
    /\ pdf_files' = Tail(pdf_files)
    /\ pc' = IF Tail(pdf_files) = << >> THEN "done" ELSE "loop"
    /\ UNCHANGED <<set_order, input_dir>>

NextBatch == ListFiles \/ ProcessFile

SpecBatch == InitBatch /\ [][NextBatch]_vars

\* the entries of the log for a file
LogOf(f) == {i \in 1..Len(log) : log[i].file = f}

\* C1 as stated: when the batch ends every input document has its output
\* record, whatever failed
C1_EveryDocumentHasRecord ==
    pc = "done" => \A f \in 1..Len(input_dir) : output_dir[f].state = "record"

\* C1 as amended: when the batch ends every input document has been processed
\* exactly once, whatever failed for the others, and has its output record
\* exactly when writing it did not fail
C1_EveryDocumentProcessed ==
    pc = "done" =>
        \A f \in 1..Len(input_dir) :
            /\ Cardinality(LogOf(f)) = 1
            /\ \A i \in LogOf(f) :
                  /\ output_dir[f].state = "record" <=> log[i].write = "written"
                  /\ output_dir[f].state = "record" => output_dir[f].record = log[i].result

\* the batch has ended; writing the first document failed and the second
\* document has its record
C1_Witness ==
    /\ pc = "done"
    /\ Len(log) = 2
    /\ log[1].write # "written"
    /\ output_dir[log[2].file].state = "record"

\* whether reading the document fails somewhere
Fails(d) ==
    \/ d.reader # "ok"
    \/ d.plumber # "ok"
    \/ d.metadata.kind = "raises"
    \/ Len(d.pages) = 0
    \/ \E p \in 1..Len(d.pages) : d.pages[p].parse # "ok"

\* C2 as stated: the record of a document whose processing fails is the
\* minimal record, with the title "Document"
C2_FailureGivesMinimalRecord ==
    \A i \in 1..Len(log) : Fails(input_dir[log[i].file]) => log[i].result = MinimalRecord

\* C2 as amended: a failure costs only the step that fails.  The title of a
\* document whose metadata cannot be read is found in its first page, or is
\* "Untitled Document"; the outline of a document whose pages cannot be read
\* is that of its bookmarks, or empty; so the record of an unreadable document
\* is "Untitled Document" with an empty outline.  The documents after it are
\* processed.
C2_FailureCostsOneStep ==
    /\ \A i \in 1..Len(log) :
          LET d == input_dir[log[i].file]
              r == log[i].result
          IN /\ d.reader # "ok" \/ d.metadata.kind = "raises" =>
                   r.title = IF LargestFontStep(d) # None THEN LargestFontStep(d)
                             ELSE IF TextStep(d) # None THEN TextStep(d)
                             ELSE UntitledDocument
             /\ ~FirstPageRead(d) /\ MetadataStep(d) = None => r.title = UntitledDocument
             /\ d.plumber # "ok" \/ Len(d.pages) = 0
                   \/ (\E p \in 1..Len(d.pages) : d.pages[p].parse # "ok") =>
                   r.outline = IF d.reader = "ok" THEN Flattening(d.forest) ELSE << >>
             /\ d.reader # "ok" /\ d.plumber # "ok" =>
                   r = [title |-> UntitledDocument, outline |-> << >>]
    /\ pc = "done" => \A f \in 1..Len(input_dir) : LogOf(f) # {}

\* an unreadable document was processed first, and a document after it
C2_Witness ==
    /\ Len(log) = 2
    /\ input_dir[log[1].file] = UnreadableDoc
    /\ log[1].result = [title |-> UntitledDocument, outline |-> << >>]
    /\ log[2].result.outline # << >>

====
